---- MODULE Spec2Model ----
(***************************************************************************)
(* Gated command execution of mcp-wsl-exec: the sanitizer and validators   *)
(* and the danger classifier of CommandExecutor, the confirmation registry *)
(* and the tool handlers of WslServer, and the child process, timer and    *)
(* promise of one run of CommandExecutor.execute_command.                  *)
(*                                                                         *)
(* A string is a sequence of one-character strings.                        *)
(* The text a process writes to stdout and stderr is left out: a run is    *)
(* described by its command line, its exit code and how its promise ends.  *)
(***************************************************************************)
EXTENDS Naturals, Integers, Sequences, FiniteSets, Bags, TLC

VARIABLES
    pending_confirmations, \* WslServer.pending_confirmations: token -> entry
    runs,                  \* bag of the calls of execute_command whose process is not closed
    ncalls,                \* number of tool calls received so far
    request,               \* the tool call the last step handled, if it handled one
    response,              \* the response the last step sent, if it sent one
    rejected,              \* history: registrations a confirm call rejected
    used,                  \* history: tokens a confirm call has found registered
    input,                 \* function harness: the command under test
    pc,                    \* function harness: which function was applied
    sanitized,             \* function harness: result of sanitize_command
    resanitized,           \* function harness: result of sanitizing that result
    dangerous,             \* function harness: result of is_dangerous_command
    timeout_arg,           \* function harness: the timeout under test
    timeout_res,           \* function harness: result of validate_timeout
    run_res                \* function harness: the run execute_command starts

gateway_vars == <<pending_confirmations, runs, ncalls, request, response, rejected, used>>

harness_vars ==
    <<input, pc, sanitized, resanitized, dangerous, timeout_arg, timeout_res,
      run_res>>

vars == <<gateway_vars, harness_vars>>

----------------------------------------------------------------------------
(* Bounds *)

\* longest command the function harness enumerates
MaxLen == 4

\* tool calls in one behaviour of the server
MaxCalls == 3

----------------------------------------------------------------------------
(* Characters and strings *)

UpperCase == <<"A","B","C","D","E","F","G","H","I","J","K","L","M",
               "N","O","P","Q","R","S","T","U","V","W","X","Y","Z">>

LowerCase == <<"a","b","c","d","e","f","g","h","i","j","k","l","m",
               "n","o","p","q","r","s","t","u","v","w","x","y","z">>

Digits == {"0","1","2","3","4","5","6","7","8","9"}

\* \w of a JavaScript regular expression
WordChars == {UpperCase[i] : i \in 1..26} \cup {LowerCase[i] : i \in 1..26}
                \cup Digits \cup {"_"}

\* what String.prototype.trim strips, as far as the alphabet has it
WhiteSpace == {" ", "\t", "\n", "\r"}

\* the grave accent, which the lexer of TLA+ does not take inside a string
BackTick == "grave"

\* the character class [;&|`$]
MetaChars == {";", "&", "|", BackTick, "$"}

BackSlash == "\\"

\* the lower-case letter of each upper-case letter
LowerOf ==
    [c \in {UpperCase[i] : i \in 1..26} |->
        LowerCase[CHOOSE i \in 1..26 : UpperCase[i] = c]]

ToLowerChar(c) == IF c \in DOMAIN LowerOf THEN LowerOf[c] ELSE c

\* String.prototype.toLowerCase
ToLowerCase(s) == [i \in 1..Len(s) |-> ToLowerChar(s[i])]

\* String.prototype.includes
Includes(s, t) ==
    \E p \in 1..(Len(s) + 1) :
        /\ p + Len(t) - 1 <= Len(s)
        /\ \A k \in 1..Len(t) : s[p + k - 1] = t[k]

\* the same replace without the g flag: only the first match goes
RECURSIVE RemoveFirstChar(_, _)
RemoveFirstChar(s, set) ==
    IF s = <<>> THEN s
    ELSE IF Head(s) \in set THEN Tail(s)
    ELSE <<Head(s)>> \o RemoveFirstChar(Tail(s), set)

\* s.replace(/[set]/g, '')
RemoveChars(s, set) == SelectSeq(s, LAMBDA c : c \notin set)

\* s.replace(/\\/g, '/')
NormalizeSeparators(s) ==
    [i \in 1..Len(s) |-> IF s[i] = BackSlash THEN "/" ELSE s[i]]

\* s.replace(/\.\./g, ''): one left-to-right pass over non-overlapping matches
RECURSIVE RemoveDotDot(_)
RemoveDotDot(s) ==
    IF Len(s) < 2 THEN s
    ELSE IF s[1] = "." /\ s[2] = "." THEN RemoveDotDot(SubSeq(s, 3, Len(s)))
    ELSE <<s[1]>> \o RemoveDotDot(Tail(s))

RECURSIVE TrimStart(_)
TrimStart(s) ==
    IF s # <<>> /\ Head(s) \in WhiteSpace THEN TrimStart(Tail(s)) ELSE s

RECURSIVE TrimEnd(_)
TrimEnd(s) ==
    IF s # <<>> /\ s[Len(s)] \in WhiteSpace
    THEN TrimEnd(SubSeq(s, 1, Len(s) - 1))
    ELSE s

\* String.prototype.trim
Trim(s) == TrimEnd(TrimStart(s))

----------------------------------------------------------------------------
(* Errors (errors.ts) *)

NoError == [name |-> "none", message |-> "", timeout |-> 0]

CommandValidationError(msg) ==
    [name |-> "CommandValidationError", message |-> msg, timeout |-> 0]

CommandTimeoutError(t) ==
    [name |-> "CommandTimeoutError", message |-> "Command timed out after ms", timeout |-> t]

InvalidConfirmationError ==
    [name |-> "InvalidConfirmationError",
     message |-> "Invalid or expired confirmation ID", timeout |-> 0]

\* a runner that wraps the error of the process in a validation error
SpawnAsValidation == CommandValidationError("spawn wsl.exe ENOENT")

\* the error a failed spawn emits (ENOENT and the like)
SpawnError == [name |-> "Error", message |-> "spawn wsl.exe ENOENT", timeout |-> 0]

----------------------------------------------------------------------------
(* CommandExecutor: sanitizer, validators, classifier *)

\* a returned value, or the error thrown
Ok(v) == [ok |-> TRUE, value |-> v, error |-> NoError]

Throw(e) == [ok |-> FALSE, value |-> <<>>, error |-> e]

\* the replace chain of sanitize_command, before the emptiness check
SanitizeChain(command) ==
    Trim(RemoveChars(RemoveDotDot(NormalizeSeparators(
        RemoveChars(command, MetaChars))), {"~"}))

\* the sanitizer without its emptiness check
sanitize_unchecked(command) == Ok(SanitizeChain(command))

sanitize_command(command) ==
    LET s == SanitizeChain(command)
    IN  IF s = <<>>
        THEN Throw(CommandValidationError("Invalid command: Empty after sanitization"))
        ELSE Ok(s)

\* JavaScript values of the optional parameters: undefined, a string, a number
Undefined == [kind |-> "undefined", s |-> <<>>, n |-> 0]

Str(s) == [kind |-> "string", s |-> s, n |-> 0]

Num(n) == [kind |-> "number", s |-> <<>>, n |-> n]

NaN == [kind |-> "NaN", s |-> <<>>, n |-> 0]

PosInfinity == [kind |-> "Infinity", s |-> <<>>, n |-> 1]

NegInfinity == [kind |-> "Infinity", s |-> <<>>, n |-> -1]

Null == [kind |-> "null", s |-> <<>>, n |-> 0]

\* !v for a string or a number
Falsy(v) ==
    \/ v.kind \in {"undefined", "null", "NaN"}
    \/ v.kind = "string" /\ v.s = <<>>
    \/ v.kind = "number" /\ v.n = 0

validate_working_dir(working_dir) ==
    IF Falsy(working_dir)
    THEN Ok(Undefined)
    ELSE LET s == Trim(NormalizeSeparators(RemoveChars(working_dir.s, MetaChars)))
         IN  IF s = <<>>
             THEN Throw(CommandValidationError("Invalid working directory"))
             ELSE Ok(Str(s))

validate_timeout(timeout) ==
    IF Falsy(timeout)
    THEN Ok(Undefined)
    ELSE IF timeout.kind = "NaN" \/ timeout.n < 0
    THEN Throw(CommandValidationError("Invalid timeout value"))
    ELSE Ok(timeout)

\* constants.ts: dangerous_commands
dangerous_commands == <<
    <<"r","m">>,
    <<"r","m","d","i","r">>,
    <<"d","d">>,
    <<"m","k","f","s">>,
    <<"m","k","s","w","a","p">>,
    <<"f","d","i","s","k">>,
    <<"s","h","u","t","d","o","w","n">>,
    <<"r","e","b","o","o","t">>,
    <<">">>,
    <<">",">">>,
    <<"f","o","r","m","a","t">>,
    <<"c","h","m","o","d">>,
    <<"c","h","o","w","n">>,
    <<"s","u","d","o">>,
    <<"s","u">>,
    <<"p","a","s","s","w","d">>,
    <<"m","v">>,
    <<"f","i","n","d"," ","-","d","e","l","e","t","e">>,
    <<"t","r","u","n","c","a","t","e">>,
    <<"s","h","r","e","d">>,
    <<"k","i","l","l">>,
    <<"p","k","i","l","l">>,
    <<"s","e","r","v","i","c","e">>,
    <<"s","y","s","t","e","m","c","t","l">>,
    <<"m","o","u","n","t">>,
    <<"u","m","o","u","n","t">>,
    <<"a","p","t">>,
    <<"a","p","t","-","g","e","t">>,
    <<"d","p","k","g">>,
    <<"y","u","m">>,
    <<"d","n","f">>,
    <<"p","a","c","m","a","n">> >>

\* position i of s holds a word character (false outside the string)
IsWordAt(s, i) == i \in 1..Len(s) /\ s[i] \in WordChars

\* the assertion \b between positions i-1 and i of s
WordBoundary(s, i) == IsWordAt(s, i - 1) # IsWordAt(s, i)

\* command.match(new RegExp(`\\b${d}\\b`, 'i')); no entry of the list holds a
\* character that is special in a regular expression
MatchesWord(command, d) ==
    \E p \in 1..(Len(command) + 1) :
        /\ p + Len(d) - 1 <= Len(command)
        /\ \A k \in 1..Len(d) : ToLowerChar(command[p + k - 1]) = ToLowerChar(d[k])
        /\ WordBoundary(command, p)
        /\ WordBoundary(command, p + Len(d))

\* command.toLowerCase().includes(d.toLowerCase())
ContainsToken(command, d) == Includes(ToLowerCase(command), ToLowerCase(d))

\* the classifier with the word-boundary test alone
is_dangerous_word_only(command) ==
    \E i \in 1..Len(dangerous_commands) : MatchesWord(command, dangerous_commands[i])

is_dangerous_command(command) ==
    \E i \in 1..Len(dangerous_commands) :
        \/ ContainsToken(command, dangerous_commands[i])
        \/ MatchesWord(command, dangerous_commands[i])

----------------------------------------------------------------------------
(* CommandExecutor.execute_command: validation, spawn, timer *)

\* a template that leaves the directory unquoted at its start
CdBare == <<"c", "d", " ">>

\* the template text  cd "  and  " &&  around the working directory
CdOpen == <<"c", "d", " ", "\"">>

CdClose == <<"\"", " ", "&", "&", " ">>

NoRun ==
    [tool |-> "none", reg |-> 0, requested_timeout |-> Undefined,
     command |-> <<>>, working_dir |-> Undefined, timeout |-> Undefined,
     full_command |-> <<>>, proc |-> "none", timer |-> "none", promise |-> "none"]

\* a runner that arms no timer
SetNoTimeout(validated_timeout) == "none"

\* if (validated_timeout) timeout_id = setTimeout(...)
SetTimeout(validated_timeout) ==
    IF ~Falsy(validated_timeout) THEN "armed" ELSE "none"

\* the synchronous body of the promise executor: an exception thrown in it
\* rejects the promise; otherwise the process is spawned and the timer armed
execute_command(command, working_dir, timeout) ==
    LET sanitized_command == sanitize_command(command)
        validated_dir == validate_working_dir(working_dir)
        validated_timeout == validate_timeout(timeout)
    IN  IF ~sanitized_command.ok
        THEN [ok |-> FALSE, error |-> sanitized_command.error, run |-> NoRun]
        ELSE IF ~validated_dir.ok
        THEN [ok |-> FALSE, error |-> validated_dir.error, run |-> NoRun]
        ELSE IF ~validated_timeout.ok
        THEN [ok |-> FALSE, error |-> validated_timeout.error, run |-> NoRun]
        ELSE LET cd_command ==
                     IF ~Falsy(validated_dir.value)
                     THEN CdOpen \o validated_dir.value.s \o CdClose
                     ELSE <<>>
             IN  [ok |-> TRUE, error |-> NoError,
                  run |-> [tool |-> "none", reg |-> 0, requested_timeout |-> timeout,
                           command |-> sanitized_command.value,
                           working_dir |-> validated_dir.value,
                           timeout |-> validated_timeout.value,
                           full_command |-> cd_command \o sanitized_command.value,
                           proc |-> "running",
                           timer |-> SetTimeout(validated_timeout.value),
                           promise |-> "pending"]]

\* a clearTimeout that leaves the timer armed
ClearNothing(timer) == timer

\* if (timeout_id) clearTimeout(timeout_id)
ClearTimeout(timer) == IF timer = "armed" THEN "cleared" ELSE timer

\* a promise that the last call of resolve or reject settles anew
SettleAgain(promise, outcome) == outcome

\* resolve and reject of a promise act only while it is pending
Settle(promise, outcome) == IF promise = "pending" THEN outcome ELSE promise

\* a runner that spawns a second process for the same call
StartedTwice(bag, run) == bag (+) SetToBag({run}) (+) SetToBag({run})

\* the runs with one more, one less, one replaced
Started(bag, run) == bag (+) SetToBag({run})

Ended(bag, run) == bag (-) SetToBag({run})

Changed(bag, run, new) == Started(Ended(bag, run), new)

----------------------------------------------------------------------------
(* WslServer: registry, tool handlers, responses *)

\* values Math.random().toString(36).substring(7) can take
ConfirmationIds == {"t1", "t2"}

Absent ==
    [present |-> FALSE, command |-> <<>>, working_dir |-> Undefined,
     timeout |-> Undefined, reg |-> 0]

\* a delete that leaves the entry in the map
DeleteNothing(map, key) == map

\* a delete that empties the map
DeleteAll(map, key) == [k \in DOMAIN map |-> Absent]

\* Map.prototype.delete
MapDelete(map, key) == [map EXCEPT ![key] = Absent]

\* the arguments of a tool call, and what its handler did with them: found
\* (the token was registered), handed (command, working_dir and timeout were
\* passed on to execute_command), spawned (a process was started)
NoRequest ==
    [tool |-> "none", command |-> <<>>, working_dir |-> Undefined,
     timeout |-> Undefined, confirmation_id |-> "", confirm |-> FALSE,
     found |-> FALSE, handed |-> FALSE, spawned |-> FALSE]

NoResponse ==
    [tool |-> "none", kind |-> "none", is_error |-> FALSE,
     error |-> NoError, token |-> "", command |-> <<>>,
     working_dir |-> Undefined, exit_code |-> Null,
     requested_timeout |-> Undefined, fired |-> FALSE]

\* a handler that reports the confirmation request through its catch block
ConfirmationAsError(command, confirmation_id) ==
    [NoResponse EXCEPT !.tool = "execute_command", !.kind = "error",
                       !.is_error = TRUE, !.token = confirmation_id,
                       !.command = command]

\* the handler's answer to a result that has requires_confirmation set
ConfirmationResponse(command, confirmation_id) ==
    [NoResponse EXCEPT !.tool = "execute_command",
                       !.kind = "requires_confirmation",
                       !.token = confirmation_id, !.command = command]

\* the handler's answer { text: format_output(result) }
ResultResponse(run, code) ==
    [NoResponse EXCEPT !.tool = run.tool, !.kind = "result",
                       !.command = run.command, !.working_dir = run.working_dir,
                       !.exit_code = code,
                       !.requested_timeout = run.requested_timeout,
                       !.fired = (run.timer = "fired")]

\* a catch block that answers with the message but does not set isError
ErrorUnflagged(tool, error) ==
    [NoResponse EXCEPT !.tool = tool, !.kind = "error", !.error = error]

\* the handler's catch block: { text: 'Error ...: ' + message, isError: true }
ErrorResponse(tool, error) ==
    [NoResponse EXCEPT !.tool = tool, !.kind = "error",
                       !.is_error = TRUE, !.error = error]

\* a rejection of a run's promise that no handler catches
RunErrorDropped(run, error) == NoResponse

\* the same, for a failure of a run that was started
RunErrorResponse(run, error) ==
    [ErrorResponse(run.tool, error) EXCEPT
        !.requested_timeout = run.requested_timeout]

\* a handler that never takes the cancellation branch
CancelledNever(confirm) == FALSE

\* if (!confirm) return the cancellation notice
Cancelled(confirm) == ~confirm

CancelledResponse ==
    [NoResponse EXCEPT !.tool = "confirm_command", !.kind = "cancelled"]

GatewayIdle ==
    /\ pending_confirmations = [t \in ConfirmationIds |-> Absent]
    /\ runs = EmptyBag
    /\ ncalls = 0
    /\ request = NoRequest
    /\ response = NoResponse
    /\ rejected = {}
    /\ used = {}

\* sample arguments of the tools
Commands ==
    { <<"r">>, <<"r", "m">>, <<"r", ";", "m">>, <<";">>, <<"r", "m", "~">> }

\* sample pairs of working_dir and timeout
Options ==
    { <<Undefined, Undefined>>, <<Str(<<"/", "m">>), Num(50)>>,
      <<Str(<<";">>), Undefined>>, <<Undefined, Num(-1)>> }

ExitCodes == { Num(0), Null }

\* execute_command tool handler with execute_wsl_command inlined
ExecuteCommand(command, working_dir, timeout) ==
    /\ ncalls < MaxCalls
    /\ ncalls' = ncalls + 1
    /\ LET requires_confirmation == is_dangerous_command(command)
           started == execute_command(command, working_dir, timeout)
       IN  /\ request' = [NoRequest EXCEPT !.tool = "execute_command",
                                           !.command = command,
                                           !.working_dir = working_dir,
                                           !.timeout = timeout,
                                           !.handed = ~requires_confirmation,
                                           !.spawned = ~requires_confirmation
                                                       /\ started.ok]
           /\ IF requires_confirmation
              THEN \E confirmation_id \in ConfirmationIds :
                     /\ pending_confirmations' =
                            [pending_confirmations EXCEPT ![confirmation_id] =
                                [present |-> TRUE, command |-> command,
                                 working_dir |-> working_dir,
                                 timeout |-> timeout, reg |-> ncalls + 1]]
                     /\ response' = ConfirmationResponse(command, confirmation_id)
                     /\ UNCHANGED runs
              ELSE /\ UNCHANGED pending_confirmations
                   /\ IF started.ok
                      THEN /\ runs' = Started(runs, [started.run EXCEPT
                                              !.tool = "execute_command"])
                           /\ response' = NoResponse
                      ELSE /\ response' = ErrorResponse("execute_command",
                                                        started.error)
                           /\ UNCHANGED runs
    /\ UNCHANGED <<rejected, used, harness_vars>>

\* confirm_command tool handler
ConfirmCommand(confirmation_id, confirm) ==
    /\ ncalls < MaxCalls
    /\ ncalls' = ncalls + 1
    /\ LET pending == pending_confirmations[confirmation_id]
           started == execute_command(pending.command, pending.working_dir,
                                      pending.timeout)
       IN  /\ request' = [NoRequest EXCEPT !.tool = "confirm_command",
                                           !.confirmation_id = confirmation_id,
                                           !.confirm = confirm,
                                           !.command = pending.command,
                                           !.working_dir = pending.working_dir,
                                           !.timeout = pending.timeout,
                                           !.found = pending.present,
                                           !.handed = pending.present
                                                      /\ ~Cancelled(confirm),
                                           !.spawned = pending.present
                                                       /\ ~Cancelled(confirm)
                                                       /\ started.ok]
           /\ IF ~pending.present
              THEN /\ response' = ErrorResponse("confirm_command",
                                                InvalidConfirmationError)
                   /\ UNCHANGED <<pending_confirmations, runs, rejected, used>>
              ELSE /\ pending_confirmations' =
                          MapDelete(pending_confirmations, confirmation_id)
                   /\ used' = used \cup {confirmation_id}
                   /\ rejected' = IF confirm THEN rejected
                                  ELSE rejected \cup {pending.reg}
                   /\ IF Cancelled(confirm)
                      THEN /\ response' = CancelledResponse
                           /\ UNCHANGED runs
                      ELSE /\ IF started.ok
                              THEN /\ runs' = Started(runs, [started.run EXCEPT
                                                      !.tool = "confirm_command",
                                                      !.reg = pending.reg])
                                   /\ response' = NoResponse
                              ELSE /\ response' = ErrorResponse("confirm_command",
                                                                started.error)
                                   /\ UNCHANGED runs
    /\ UNCHANGED harness_vars

\* the command templates of the read-only tools
SystemInfoCommand ==
    <<"u","n","a","m","e"," ","-","a"," ","&","&"," ","l","s","b","_","r","e",
      "l","e","a","s","e"," ","-","a"," ","2",">","/","d","e","v","/","n",
      "u","l","l"," ","|","|"," ","c","a","t"," ","/","e","t","c","/","o",
      "s","-","r","e","l","e","a","s","e">>

Quoted(s) == <<"\"">> \o s \o <<"\"">>

\* filter ? `env | grep -i "${filter}"` : 'env'
EnvironmentCommand(filter) ==
    IF Falsy(filter) THEN <<"e","n","v">>
    ELSE <<"e","n","v"," ","|"," ","g","r","e","p"," ","-","i"," ">> \o Quoted(filter.s)

\* filter ? `ps aux | grep -i "${filter}" | grep -v grep` : 'ps aux'
ProcessesCommand(filter) ==
    IF Falsy(filter) THEN <<"p","s"," ","a","u","x">>
    ELSE <<"p","s"," ","a","u","x"," ","|"," ","g","r","e","p"," ","-","i"," ">> \o Quoted(filter.s)
             \o <<" ","|"," ","g","r","e","p"," ","-","v"," ","g","r","e","p">>

\* path ? `df -h "${path}"` : 'df -h'
DiskUsageCommand(path) ==
    IF Falsy(path) THEN <<"d","f"," ","-","h">>
    ELSE <<"d","f"," ","-","h"," ">> \o Quoted(path.s)

\* dir = path || '.'; details ? `ls -lah "${dir}"` : `ls -A "${dir}"`
DirectoryCommand(path, details) ==
    LET dir == IF Falsy(path) THEN <<".">> ELSE path.s
    IN  IF details THEN <<"l","s"," ","-","l","a","h"," ">> \o Quoted(dir)
        ELSE <<"l","s"," ","-","A"," ">> \o Quoted(dir)

\* sample values of the optional filter and path arguments
AuxArguments == { Undefined, Str(<<"r", "m">>) }

\* the command each read-only tool builds from its arguments
AuxCommands ==
    {<<"get_system_info", SystemInfoCommand>>}
        \cup {<<"get_environment", EnvironmentCommand(a)>> : a \in AuxArguments}
        \cup {<<"list_processes", ProcessesCommand(a)>> : a \in AuxArguments}
        \cup {<<"get_disk_usage", DiskUsageCommand(a)>> : a \in AuxArguments}
        \cup {<<"get_directory_info", DirectoryCommand(a, d)>> :
                  a \in AuxArguments, d \in BOOLEAN}

\* the handler of a read-only tool: execute_command(cmd), no confirmation
AuxTool(tool, cmd) ==
    /\ ncalls < MaxCalls
    /\ ncalls' = ncalls + 1
    /\ LET started == execute_command(cmd, Undefined, Undefined)
       IN  /\ request' = [NoRequest EXCEPT !.tool = tool, !.command = cmd,
                                           !.handed = TRUE,
                                           !.spawned = started.ok]
           /\ IF started.ok
              THEN /\ runs' = Started(runs, [started.run EXCEPT !.tool = tool])
                   /\ response' = NoResponse
              ELSE /\ response' = ErrorResponse(tool, started.error)
                   /\ UNCHANGED runs
    /\ UNCHANGED <<pending_confirmations, rejected, used, harness_vars>>

\* the setTimeout callback of a run: kill the process, reject the promise
TimerFire(run) ==
    /\ run.timer = "armed"
    /\ runs' = Changed(runs, run,
                   [run EXCEPT !.timer = "fired",
                               !.proc = IF @ = "running" THEN "killed" ELSE @,
                               !.promise = Settle(@, "rejected")])
    /\ response' = IF Settle(run.promise, "rejected") # run.promise
                   THEN RunErrorResponse(run, CommandTimeoutError(run.timeout.n))
                   ELSE NoResponse
    /\ request' = NoRequest
    /\ UNCHANGED <<pending_confirmations, ncalls, rejected, used, harness_vars>>

\* the 'close' listener of a run: clear the timer, resolve with the result.
\* A closed run whose timer is not armed has no callback left and leaves
\* the runs.
ProcClose(run, code) ==
    /\ run.proc \in {"running", "killed", "failed"}
    /\ LET closed == [run EXCEPT !.proc = "closed",
                                 !.timer = ClearTimeout(@),
                                 !.promise = Settle(@, "resolved")]
       IN  runs' = IF closed.timer = "armed"
                   THEN Changed(runs, run, closed)
                   ELSE Ended(runs, run)
    /\ response' = IF Settle(run.promise, "resolved") # run.promise
                   THEN ResultResponse(run, code)
                   ELSE NoResponse
    /\ request' = NoRequest
    /\ UNCHANGED <<pending_confirmations, ncalls, rejected, used, harness_vars>>

\* the 'error' listener of a run: clear the timer, reject with the error
ProcError(run) ==
    /\ run.proc \in {"running", "killed"}
    /\ runs' = Changed(runs, run,
                   [run EXCEPT !.proc = "failed",
                               !.timer = ClearTimeout(@),
                               !.promise = Settle(@, "rejected")])
    /\ response' = IF Settle(run.promise, "rejected") # run.promise
                   THEN RunErrorResponse(run, SpawnError)
                   ELSE NoResponse
    /\ request' = NoRequest
    /\ UNCHANGED <<pending_confirmations, ncalls, rejected, used, harness_vars>>

HarnessIdle ==
    /\ input = <<>>
    /\ pc = "idle"
    /\ sanitized = Throw(NoError)
    /\ resanitized = Throw(NoError)
    /\ dangerous = FALSE
    /\ timeout_arg = Undefined
    /\ timeout_res = Throw(NoError)
    /\ run_res = NoRun

Init == GatewayIdle /\ HarnessIdle

Next ==
    \/ \E command \in Commands, options \in Options :
           ExecuteCommand(command, options[1], options[2])
    \/ \E confirmation_id \in ConfirmationIds, confirm \in BOOLEAN :
           ConfirmCommand(confirmation_id, confirm)
    \/ \E aux \in AuxCommands : AuxTool(aux[1], aux[2])
    \/ \E run \in BagToSet(runs) : TimerFire(run)
    \/ \E run \in BagToSet(runs), code \in ExitCodes : ProcClose(run, code)
    \/ \E run \in BagToSet(runs) : ProcError(run)

Spec == Init /\ [][Next]_vars

\* the runtime runs the callback of every timer that stays armed
SpecLive ==
    Spec /\ WF_vars(\E run \in BagToSet(runs) : TimerFire(run))

----------------------------------------------------------------------------
(* Function harness: the sanitizer and the classifier on every command of  *)
(* at most MaxLen characters over Alphabet                                 *)

Alphabet == {"r", "m", "R", ">", ";", "$", BackSlash, ".", "~", " "}

Strings(n) == UNION {[1..k -> Alphabet] : k \in 0..n}

InitFn ==
    /\ GatewayIdle
    /\ input \in Strings(MaxLen)
    /\ pc = "start"
    /\ sanitized = Throw(NoError)
    /\ resanitized = Throw(NoError)
    /\ dangerous = FALSE
    /\ timeout_arg = Undefined
    /\ timeout_res = Throw(NoError)
    /\ run_res = NoRun

Sanitize ==
    /\ pc = "start"
    /\ sanitized' = sanitize_command(input)
    /\ pc' = "sanitized"
    /\ UNCHANGED <<input, resanitized, dangerous, timeout_arg, timeout_res,
                   run_res, gateway_vars>>

Classify ==
    /\ pc = "start"
    /\ dangerous' = is_dangerous_command(input)
    /\ pc' = "classified"
    /\ UNCHANGED <<input, sanitized, resanitized, timeout_arg, timeout_res,
                   run_res, gateway_vars>>

\* sample values of the timeout parameter: absent, zero, positive, negative,
\* and the numbers that are not finite
Timeouts == { Undefined, Num(0), Num(50), Num(-1), NaN, PosInfinity, NegInfinity }

\* validate_timeout alone, and inside execute_command on the command under test
ValidateTimeout(t) ==
    /\ pc = "start"
    /\ timeout_arg' = t
    /\ timeout_res' = validate_timeout(t)
    /\ run_res' = execute_command(input, Undefined, t).run
    /\ pc' = "validated"
    /\ UNCHANGED <<input, sanitized, resanitized, dangerous, gateway_vars>>

\* sanitize_command on a command that sanitize_command returned
SanitizeAgain ==
    /\ pc = "sanitized"
    /\ sanitized.ok
    /\ resanitized' = sanitize_command(sanitized.value)
    /\ pc' = "resanitized"
    /\ UNCHANGED <<input, sanitized, dangerous, timeout_arg, timeout_res,
                   run_res, gateway_vars>>

NextFn ==
    \/ Sanitize
    \/ SanitizeAgain
    \/ Classify
    \/ \E t \in Timeouts : ValidateTimeout(t)

SpecFn == InitFn /\ [][NextFn]_vars

----------------------------------------------------------------------------
(* Claims about the sanitizer and the classifier, under SpecFn *)

HasChar(s, set) == \E i \in 1..Len(s) : s[i] \in set

DotDot == <<".", ".">>

\* C7: whenever sanitize succeeds, its output holds none of ; & | ` $ and no
\* backslash.
C7_NoMetaCharsLeft ==
    (pc = "sanitized" /\ sanitized.ok)
        => ~HasChar(sanitized.value, MetaChars \cup {BackSlash})

\* C7, its case: a command with a metacharacter and a backslash was sanitized.
C7_Witness ==
    /\ pc = "sanitized" /\ sanitized.ok
    /\ HasChar(input, MetaChars) /\ HasChar(input, {BackSlash})

\* C8 as stated: whenever sanitize succeeds, its output holds no ".." and
\* no "~". The code removes ".." before "~", so ".~." leaves "..".
C8_NoParentOrHomeRefs ==
    (pc = "sanitized" /\ sanitized.ok)
        => /\ ~Includes(sanitized.value, DotDot)
           /\ ~HasChar(sanitized.value, {"~"})

\* the substring test of the classifier, over the whole list
SubstringTest(command) ==
    \E i \in 1..Len(dangerous_commands) : ContainsToken(command, dangerous_commands[i])

\* the word-boundary test of the classifier, over the whole list
WordTest(command) ==
    \E i \in 1..Len(dangerous_commands) : MatchesWord(command, dangerous_commands[i])

\* C9: is_dangerous is true exactly when the lowercased command contains a
\* lowercased entry of the list, and the word-boundary test flags nothing the
\* substring test does not.
C9_DangerousIffSubstring ==
    (pc = "classified")
        => /\ dangerous = SubstringTest(input)
           /\ WordTest(input) => SubstringTest(input)

\* C9, its case: a command in upper case that only the substring test flags
\* (the entry is not a word of its own in it).
C9_Witness ==
    /\ pc = "classified" /\ dangerous
    /\ HasChar(input, {"R"})
    /\ ~WordTest(input)

----------------------------------------------------------------------------
(* Claims about the gateway, under Spec *)

Registered(t) == pending_confirmations[t].present

\* the three validations of a request's arguments all pass
ValidArguments(r) ==
    /\ sanitize_command(r.command).ok
    /\ validate_working_dir(r.working_dir).ok
    /\ validate_timeout(r.timeout).ok

\* C1 as stated: every process started from execute or confirm whose
\* sanitized command is dangerous was started by a confirm call. The execute
\* handler classifies the raw command, so "r;m" runs "rm" unconfirmed.
C1_DangerousNeedsConfirm ==
    \A run \in BagToSet(runs) :
        run.tool = "execute_command" => ~is_dangerous_command(run.command)

\* C2: a confirm call with confirm = false on a registered token removes the
\* token, answers with the cancellation notice, not an error, and starts no
\* process; no process ever runs for a registration that was rejected.
C2_RejectNeverSpawns ==
    /\ (request.tool = "confirm_command" /\ request.found /\ ~request.confirm)
           => /\ response = CancelledResponse
              /\ ~response.is_error
              /\ ~Registered(request.confirmation_id)
              /\ ~request.spawned
    /\ \A run \in BagToSet(runs) : run.reg \notin rejected

\* C2, its case: a registered token was just rejected while a process of
\* another call is alive.
C2_Witness ==
    /\ request.tool = "confirm_command" /\ request.found /\ ~request.confirm
    /\ response.kind = "cancelled"
    /\ runs # EmptyBag

\* C3 as stated: once a confirm call has named a registered token, the token
\* is absent from the registry ever after. Nothing keeps a later execute
\* call from generating the same token again (C4).
C3_TokensSingleUse ==
    \A t \in used : ~Registered(t)

\* C4 as stated: a registration yields a token that is not in the registry
\* at that moment. The token is a random value that is never compared with
\* the keys of the map.
C4_FreshToken ==
    [][\A t \in ConfirmationIds :
          (response'.kind = "requires_confirmation" /\ response'.token = t)
              => ~Registered(t)]_vars

\* C5 as stated: an execute request whose arguments fail validation is
\* answered with a validation error, registers nothing, returns no token and
\* starts no process. The handler classifies before it validates.
C5_ValidationFirst ==
    (request.tool = "execute_command" /\ ~ValidArguments(request))
        => /\ response.kind = "error"
           /\ response.error.name = "CommandValidationError"
           /\ response.token = ""
           /\ ~request.spawned
           /\ \A t \in ConfirmationIds :
                  ~(Registered(t) /\ pending_confirmations[t].reg = ncalls)

\* C6: a command that is empty after sanitization, handed to the runner by
\* any handler, is answered with the validation error of the sanitizer and
\* starts no process; no process runs an empty command.
C6_EmptyNeverSpawns ==
    /\ (request.handed /\ SanitizeChain(request.command) = <<>>)
           => /\ response.kind = "error" /\ response.is_error
              /\ response.error =
                     CommandValidationError("Invalid command: Empty after sanitization")
              /\ ~request.spawned
    /\ \A run \in BagToSet(runs) : run.command # <<>>

\* C6, its case: a non-empty command that sanitization empties was handed
\* to the runner.
C6_Witness ==
    /\ request.handed
    /\ request.command # <<>>
    /\ SanitizeChain(request.command) = <<>>
    /\ response.is_error

\* C10: once the timer of a run has fired, the process was killed and the
\* promise is rejected; the timeout error carries the requested timeout, and
\* no result is ever delivered for a run whose timer fired, not even when the
\* process closes afterwards.
C10_TimeoutIsHardFailure ==
    /\ \A run \in BagToSet(runs) :
           run.timer = "fired" => run.promise = "rejected" /\ run.proc # "running"
    /\ response.error.name = "CommandTimeoutError"
           => /\ response.is_error
              /\ response.requested_timeout = Num(response.error.timeout)
    /\ response.kind = "result" => ~response.fired

\* C10, its case: the timer of a run fired while its process ran, the caller
\* has the timeout error, and the close event is still to come.
C10_Witness ==
    /\ response.error = CommandTimeoutError(50)
    /\ \E run \in BagToSet(runs) :
           /\ run.timer = "fired" /\ run.proc = "killed"
           /\ ENABLED ProcClose(run, Null)

\* C11 as stated: when a CommandTimeoutError is delivered, the process of
\* that run has closed. The timer callback calls kill, which only sends the
\* signal, and rejects at once: the error is delivered while the process of
\* the run is still to close.
C11_ClosedBeforeTimeoutError ==
    response.error.name = "CommandTimeoutError"
        => ~ \E run \in BagToSet(runs) :
                 /\ run.tool = response.tool
                 /\ run.requested_timeout = response.requested_timeout
                 /\ run.timer = "fired"
                 /\ run.proc = "killed"

\* the step is a confirm call naming token t, which is registered before it
ConfirmsRegistered(t) ==
    /\ request'.tool = "confirm_command"
    /\ request'.confirmation_id = t
    /\ Registered(t)

\* C12 as stated: a confirm call with confirm = true on a registered token
\* hands the runner the command, working directory and timeout stored under
\* the token, starts a process for them and never answers with a confirmation
\* request. The stored values were never validated (C5), so the runner can
\* refuse them and start nothing.
C12_ConfirmRunsStored ==
    [][\A t \in ConfirmationIds :
          (ConfirmsRegistered(t) /\ request'.confirm)
              => LET pending == pending_confirmations[t]
                 IN  /\ request'.handed
                     /\ request'.command = pending.command
                     /\ request'.working_dir = pending.working_dir
                     /\ request'.timeout = pending.timeout
                     /\ response'.kind # "requires_confirmation"
                     /\ request'.spawned
                     /\ \E run \in BagToSet(runs') :
                            /\ run.tool = "confirm_command"
                            /\ run.reg = pending.reg
                            /\ run.command = SanitizeChain(pending.command)
                            /\ run.requested_timeout = pending.timeout]_vars

\* the part of C12 that does not depend on the stored values being valid
C12_HandsStoredValues ==
    [][\A t \in ConfirmationIds :
          (ConfirmsRegistered(t) /\ request'.confirm)
              => LET pending == pending_confirmations[t]
                 IN  /\ request'.handed
                     /\ request'.command = pending.command
                     /\ request'.working_dir = pending.working_dir
                     /\ request'.timeout = pending.timeout
                     /\ response'.kind # "requires_confirmation"
                     /\ request'.spawned = ValidArguments(pending)]_vars

\* C13: a confirm call naming a token that is not in the registry, with
\* confirm true or false, is answered with InvalidConfirmationError as an
\* error response, starts no process and leaves the registry as it was.
C13_UnknownTokenFails ==
    [][\A t \in ConfirmationIds :
          (request'.tool = "confirm_command" /\ request'.confirmation_id = t
               /\ ~Registered(t))
              => /\ response'.kind = "error"
                 /\ response'.is_error
                 /\ response'.error.name = "InvalidConfirmationError"
                 /\ ~request'.handed
                 /\ ~request'.spawned
                 /\ runs' = runs
                 /\ pending_confirmations' = pending_confirmations]_vars

\* C13, its case: a token that was consumed by an approval is named again
\* with confirm = true while the approved process runs, and is refused.
C13_Witness ==
    /\ request.tool = "confirm_command"
    /\ request.confirm
    /\ ~request.found
    /\ request.confirmation_id \in used
    /\ response.error = InvalidConfirmationError
    /\ \E run \in BagToSet(runs) : run.tool = "confirm_command"

\* the step is an event of run: it takes run out of the runs or replaces it
EventOf(run) ==
    /\ request' = NoRequest
    /\ CopiesIn(run, runs') < CopiesIn(run, runs)

\* C14: every failure met while an execute or confirm call is handled
\* (validation, unknown token, timeout, spawn error) becomes a response with
\* is_error set. A handler step either answers or leaves a run whose promise
\* is pending; the event that settles the promise of a run answers once, and
\* no later event of that run answers again.
C14_FailuresBecomeErrorResponses ==
    [][/\ request'.tool \in {"execute_command", "confirm_command"}
           => (response' # NoResponse) # request'.spawned
       /\ (response'.error # NoError) = response'.is_error
       /\ (response'.kind = "error") = response'.is_error
       /\ (request'.handed /\ ~ValidArguments(request'))
           => /\ response'.is_error
              /\ response'.error.name = "CommandValidationError"
              /\ response'.tool = request'.tool
       /\ \A run \in BagToSet(runs) :
              EventOf(run)
                  => IF run.promise = "pending"
                     THEN /\ response'.tool = run.tool
                          /\ response'.kind \in {"result", "error"}
                          /\ response'.kind = "result" <=> runs' = Ended(runs, run)
                     ELSE response' = NoResponse]_vars

\* C14, its case: the process of an approved command failed to start and
\* the confirm call was answered with that error.
C14_Witness ==
    /\ request = NoRequest
    /\ response.tool = "confirm_command"
    /\ response.is_error
    /\ response.error = SpawnError
    /\ \E run \in BagToSet(runs) : run.proc = "failed" /\ run.promise = "rejected"

----------------------------------------------------------------------------
(* Claims about validate_timeout, under SpecFn *)

\* a number that is NaN, +Infinity or -Infinity
NotFinite(v) == v.kind \in {"NaN", "Infinity"}

Negative(v) == v.kind \in {"number", "Infinity"} /\ v.n < 0

\* C15 as stated: validate_timeout fails for every timeout that is negative
\* or not finite, so no timer is armed with such a value and no process is
\* started for it; an absent timeout is 'no timeout'. NaN is falsy, so it
\* passes as 'no timeout', and +Infinity is neither NaN nor negative, so it
\* is returned and armed.
C15_RejectsNegativeAndNonFinite ==
    pc = "validated"
        => /\ (Negative(timeout_arg) \/ NotFinite(timeout_arg))
                  => /\ ~timeout_res.ok
                     /\ timeout_res.error.name = "CommandValidationError"
                     /\ run_res = NoRun
           /\ timeout_arg = Undefined => timeout_res = Ok(Undefined)

\* the part of C15 the code does keep: negative values, -Infinity included
C15_RejectsNegative ==
    (pc = "validated" /\ Negative(timeout_arg))
        => ~timeout_res.ok /\ run_res = NoRun

----------------------------------------------------------------------------
(* Claims about the runs and the registry, under Spec *)

\* the text  cd "d" &&  for a directory d
CdPrefix(d) == <<"c", "d", " ", "\"">> \o d \o <<"\"", " ", "&", "&", " ">>

\* the command line the claim gives for a run
CommandLine(run) ==
    IF run.working_dir.kind = "string" /\ run.working_dir.s # <<>>
    THEN CdPrefix(run.working_dir.s) \o run.command
    ELSE run.command

\* C16: the command line of every run is  cd "d" && c  when a validated
\* working directory d is given and c alone when none is, c being the
\* sanitized command of the request; the result of the run reports c and d.
C16_CommandLineComposed ==
    [][/\ \A run \in BagToSet(runs') : run.full_command = CommandLine(run)
       /\ request'.spawned
              => \E run \in BagToSet(runs') :
                     /\ run.tool = request'.tool
                     /\ run.command = SanitizeChain(request'.command)
                     /\ run.working_dir =
                            validate_working_dir(request'.working_dir).value
       /\ \A run \in BagToSet(runs) :
              (runs' = Ended(runs, run) /\ response'.kind = "result")
                  => /\ response'.command = run.command
                     /\ response'.working_dir = run.working_dir]_vars

\* C16, its case: a run with a working directory closed and its result was
\* delivered while a run without one is alive.
C16_Witness ==
    /\ response.kind = "result"
    /\ response.working_dir = Str(<<"/", "m">>)
    /\ \E run \in BagToSet(runs) :
           /\ run.working_dir = Undefined
           /\ run.full_command = run.command

\* the number of processes alive that were started for registration reg
ProcessesOf(reg) ==
    LET of == {run \in BagToSet(runs) : run.reg = reg}
        Sum[S \in SUBSET of] ==
            IF S = {} THEN 0
            ELSE LET run == CHOOSE r \in S : TRUE
                 IN  CopiesIn(run, runs) + Sum[S \ {run}]
    IN  Sum[of]

\* the registrations made so far are numbered 1..ncalls
Registrations == 1..MaxCalls

\* C17: handlers run to their await without interruption, so a confirm call
\* that finds a token takes its registration out of the registry in the same
\* step: the registration is not found again, no second process is started
\* for it, and a registration that has a process or was rejected is never in
\* the registry.
C17_ConsumedOnce ==
    [][/\ \A t \in ConfirmationIds :
              ConfirmsRegistered(t)
                  => LET pending == pending_confirmations[t]
                     IN  /\ \A u \in ConfirmationIds :
                                ~ /\ pending_confirmations'[u].present
                                  /\ pending_confirmations'[u].reg = pending.reg
                         /\ request'.found
                         /\ t \in used'
       /\ \A reg \in Registrations :
              /\ ProcessesOf(reg)' <= 1
              /\ (ProcessesOf(reg)' = 1 \/ reg \in rejected')
                     => \A u \in ConfirmationIds :
                            ~ /\ pending_confirmations'[u].present
                              /\ pending_confirmations'[u].reg = reg
              /\ ProcessesOf(reg)' > ProcessesOf(reg)
                     => \E t \in ConfirmationIds :
                            /\ ConfirmsRegistered(t)
                            /\ pending_confirmations[t].reg = reg]_vars

\* C17, its case: a token was approved and its process is alive when a
\* second confirm call names the same token and finds nothing.
C17_Witness ==
    /\ request.tool = "confirm_command"
    /\ ~request.found
    /\ request.confirmation_id \in used
    /\ \E reg \in Registrations : ProcessesOf(reg) = 1
    /\ \A t \in ConfirmationIds : ~Registered(t)

\* C18 as stated: the command of every PendingConfirmation in the registry
\* is sanitized: none of ; & | ` $, no '..', no '~', so that the command of
\* the prompt is the command run on approval. The registry stores the
\* command as it was received.
C18_StoresSanitized ==
    \A t \in ConfirmationIds :
        Registered(t)
            => LET command == pending_confirmations[t].command
               IN  /\ ~HasChar(command, MetaChars \cup {"~"})
                   /\ ~Includes(command, DotDot)
                   /\ command = SanitizeChain(command)

\* C19: an execute call for a flagged command is answered in the step that
\* handles it, with a confirmation request that carries the token it has
\* just registered and is not an error; it starts no process and leaves no
\* promise pending. A confirm call is answered with a response of its own,
\* which is not a confirmation request.
C19_ConfirmationRequestAtOnce ==
    /\ (request.tool = "execute_command" /\ is_dangerous_command(request.command))
           => /\ response.tool = "execute_command"
              /\ response.kind = "requires_confirmation"
              /\ ~response.is_error
              /\ response.token \in ConfirmationIds
              /\ Registered(response.token)
              /\ pending_confirmations[response.token].reg = ncalls
              /\ pending_confirmations[response.token].command = request.command
              /\ response.command = request.command
              /\ ~request.handed
              /\ ~request.spawned
    /\ response.kind = "requires_confirmation"
           => /\ request.tool = "execute_command"
              /\ is_dangerous_command(request.command)
    /\ request.tool = "confirm_command"
           => response.tool \in {"confirm_command", "none"}
    /\ \A run \in BagToSet(runs) :
           run.tool = "execute_command" => run.reg = 0

\* C19, its case: a flagged command was answered with a confirmation
\* request while nothing ran and no confirm call had been made.
C19_Witness ==
    /\ request.tool = "execute_command"
    /\ response.kind = "requires_confirmation"
    /\ Registered(response.token)
    /\ runs = EmptyBag
    /\ used = {}

\* the step replaces run by new: an event of run that is not its close
Replaces(run, new) ==
    /\ EventOf(run)
    /\ CopiesIn(new, runs') > CopiesIn(new, runs)

\* C20: a call of the runner starts one process when its three validations
\* pass and none when one fails; no other step starts a process, so nothing
\* is started again after a timeout or a failure; and a promise that is
\* settled stays as it is under every later event of its run.
C20_OneProcessOneOutcome ==
    [][/\ request'.handed
              => /\ request'.spawned = ValidArguments(request')
                 /\ BagCardinality(runs') =
                        BagCardinality(runs) + (IF request'.spawned THEN 1 ELSE 0)
       /\ ~request'.handed
              => /\ ~request'.spawned
                 /\ BagCardinality(runs') <= BagCardinality(runs)
       /\ \A run \in BagToSet(runs) :
              /\ EventOf(run) => BagCardinality(runs') \in
                                     {BagCardinality(runs) - 1, BagCardinality(runs)}
              /\ \A new \in BagToSet(runs') :
                     Replaces(run, new)
                         => /\ new.full_command = run.full_command
                            /\ new.proc # "running"
                            /\ run.promise # "pending" => new.promise = run.promise
                            /\ new.promise # "pending"
       /\ \A run \in BagToSet(runs') :
              /\ run.proc = "running" => run.promise = "pending"
              /\ run.promise \in {"pending", "rejected"}]_vars

\* C20, its case: the timer of a run fired, then its process reported an
\* error, and the run is still the only one.
C20_Witness ==
    /\ request = NoRequest
    /\ response = NoResponse
    /\ BagCardinality(runs) = 1
    /\ \E run \in BagToSet(runs) :
           /\ run.timer = "fired"
           /\ run.proc = "failed"
           /\ run.promise = "rejected"

----------------------------------------------------------------------------
(* Claims about timers and process events, under Spec and SpecLive *)

\* a run waits for its outcome with its timer armed
ArmedPending ==
    \E run \in BagToSet(runs) : run.timer = "armed" /\ run.promise = "pending"

\* C21: a run with a positive timeout has its timer armed for as long as it
\* is pending, and, the timer callback being run eventually, is settled
\* even if its process never closes; a pending run without a timeout is
\* settled only by the close of its process or by a spawn error.
C21_TimeoutBoundsTheRun ==
    /\ [](\A run \in BagToSet(runs) :
              /\ (run.timer = "none") = Falsy(run.timeout)
              /\ (run.promise = "pending" /\ ~Falsy(run.timeout))
                     => run.timer = "armed")
    /\ ArmedPending ~> ~ArmedPending
    /\ [][\A run \in BagToSet(runs) :
              (EventOf(run) /\ run.timer = "none" /\ run.promise = "pending")
                  => \/ response'.kind = "result" /\ runs' = Ended(runs, run)
                     \/ response'.error = SpawnError]_vars

\* C21, its case: the timer of a run settled it while its process, which has
\* not closed, is the only thing left of the call.
C21_Witness ==
    /\ response.error.name = "CommandTimeoutError"
    /\ response.tool = "execute_command"
    /\ \E run \in BagToSet(runs) :
           /\ run.proc = "killed"
           /\ run.promise = "rejected"
           /\ ~Falsy(run.timeout)
    /\ ~ArmedPending

\* the step issues kill against the process of run: its timer callback runs
Kills(run) ==
    /\ EventOf(run)
    /\ run.timer = "armed"
    /\ \E new \in BagToSet(runs') : Replaces(run, new) /\ new.timer = "fired"

\* C22: the close of the process and a spawn error clear the timer. A run
\* that was settled by its result or by a spawn error has no armed timer
\* and never gets a timeout error, and the timer callback runs, and kills,
\* only while the process runs and the promise is pending.
C22_TimerCancelled ==
    [][/\ \A run \in BagToSet(runs') :
              run.proc \in {"failed", "closed"} => run.timer # "armed"
       /\ \A run \in BagToSet(runs) :
              /\ Kills(run) => run.proc = "running" /\ run.promise = "pending"
              /\ (EventOf(run) /\ response'.error.name = "CommandTimeoutError")
                     => Kills(run) /\ run.proc = "running"
              /\ (EventOf(run) /\ run.timer = "armed" /\ ~Kills(run))
                     => /\ response' # NoResponse
                        /\ response'.error.name # "CommandTimeoutError"
                        /\ \A new \in BagToSet(runs') :
                               Replaces(run, new) => new.timer = "cleared"]_vars

\* C22, its case: the process of a run with an armed timer reported a spawn
\* error first; the caller has that error and the timer is cleared.
C22_Witness ==
    /\ response.error = SpawnError
    /\ response.requested_timeout = Num(50)
    /\ \E run \in BagToSet(runs) :
           /\ run.proc = "failed"
           /\ run.timer = "cleared"
           /\ run.timeout = Num(50)

\* C23: when the process of a pending run reports an error, the caller gets
\* that error, with its own name and message, as an error response, not a
\* validation or timeout error; and no result is delivered for a run whose
\* process has reported an error, not even when it closes afterwards.
C23_SpawnErrorSurfaces ==
    [][\A run \in BagToSet(runs) :
          /\ (EventOf(run) /\ run.promise = "pending"
                  /\ \E new \in BagToSet(runs') :
                         Replaces(run, new) /\ new.proc = "failed")
                 => /\ response'.tool = run.tool
                    /\ response'.kind = "error"
                    /\ response'.is_error
                    /\ response'.error.name = "Error"
                    /\ response'.error.message = "spawn wsl.exe ENOENT"
          /\ (EventOf(run) /\ run.proc = "failed")
                 => response' = NoResponse
          /\ run.proc = "failed" => run.promise = "rejected"]_vars

\* C23, its case: the process of a run reported an error, the caller has it,
\* and the close of that process is still to come.
C23_Witness ==
    /\ response.tool = "execute_command"
    /\ response.error.name = "Error"
    /\ response.is_error
    /\ \E run \in BagToSet(runs) :
           /\ run.proc = "failed"
           /\ run.timer = "none"
           /\ ENABLED ProcClose(run, Num(0))

\* C24 as stated: every result delivered for a run has exit_code populated;
\* exit_code is absent only after a timeout kill or a spawn error, and then
\* the caller has a failure, not a result. The 'close' listener resolves
\* with the code it is given, and that is null whenever a signal ended the
\* process, also a signal that did not come from the timer callback.
C24_ResultHasExitCode ==
    response.kind = "result" => response.exit_code # Null

\* the part of C24 that holds: after a timeout kill or a spawn error no
\* result is delivered, with or without an exit code
C24_FailureNotResult ==
    [][\A run \in BagToSet(runs) :
          (EventOf(run) /\ (run.timer = "fired" \/ run.proc = "failed"))
              => response'.kind # "result"]_vars

----------------------------------------------------------------------------
(* Claims about what a step leaves alone, under Spec *)

\* C25: a confirm call naming token t, approving or rejecting, found or not,
\* leaves the entry of every other token as it was, so that entries can be
\* confirmed in another order than they were registered.
C25_ConfirmTouchesOneEntry ==
    [][\A t \in ConfirmationIds :
          (request'.tool = "confirm_command" /\ request'.confirmation_id = t)
              => /\ \A u \in ConfirmationIds \ {t} :
                        pending_confirmations'[u] = pending_confirmations[u]
                 /\ Registered(t) => ~Registered(t)']_vars

\* C25, its case: two commands are registered and the one registered last
\* was approved first; the other is still registered.
C25_Witness ==
    /\ request.tool = "confirm_command"
    /\ request.found
    /\ request.confirm
    /\ request.spawned
    /\ \E u \in ConfirmationIds :
           /\ u # request.confirmation_id
           /\ Registered(u)
           /\ \E run \in BagToSet(runs) :
                  run.reg > pending_confirmations[u].reg

\* C26 as stated: an entry of the registry stays as it is under every step
\* that is not a confirm call naming its token. An execute call for a
\* flagged command whose generated token is already registered (C4)
\* replaces the entry of that token.
C26_EntryStaysUntilConfirmed ==
    [][\A t \in ConfirmationIds :
          (Registered(t)
               /\ ~(request'.tool = "confirm_command"
                        /\ request'.confirmation_id = t))
              => pending_confirmations'[t] = pending_confirmations[t]]_vars

\* the part of C26 that holds: only a registration under the same token or
\* a confirm call naming the token changes an entry; there is no expiry
C26_OnlyRegistrationOrConfirm ==
    [][\A t \in ConfirmationIds :
          (Registered(t) /\ pending_confirmations'[t] # pending_confirmations[t])
              => \/ request'.tool = "confirm_command"
                        /\ request'.confirmation_id = t
                 \/ response'.kind = "requires_confirmation"
                        /\ response'.token = t]_vars

\* the read-only tools
AuxTools == {aux[1] : aux \in AuxCommands}

\* C27 as stated: the command a read-only tool hands to the runner is never
\* one the classifier flags, so no process of a read-only tool runs a
\* flagged command. The classifier is never called on these commands; the
\* template of get_system_info contains '>' (2>/dev/null), and a filter or
\* path argument is copied into the command as it comes.
C27_AuxNeverDangerous ==
    /\ request.tool \in AuxTools => ~is_dangerous_command(request.command)
    /\ \A run \in BagToSet(runs) :
           run.tool \in AuxTools => ~is_dangerous_command(run.command)

\* the same for the tools and arguments whose command has no listed token
C27_PlainTemplatesNotDangerous ==
    \A a \in {Undefined, Str(<<"x">>)} :
        /\ ~is_dangerous_command(EnvironmentCommand(a))
        /\ ~is_dangerous_command(ProcessesCommand(a))
        /\ ~is_dangerous_command(DiskUsageCommand(a))
        /\ ~is_dangerous_command(DirectoryCommand(a, TRUE))
        /\ ~is_dangerous_command(DirectoryCommand(a, FALSE))

----------------------------------------------------------------------------
(* Claims about sanitizing twice, under SpecFn *)

\* C28 as stated: a command that sanitize_command returned is returned
\* unchanged by a second call. The result can contain '..' (C8), which the
\* second call removes, or turns into the empty command and refuses.
C28_SanitizeIdempotent ==
    pc = "resanitized" => resanitized = sanitized

\* the part of C28 that holds: a result without '..' is returned unchanged
C28_IdempotentWithoutDotDot ==
    (pc = "resanitized" /\ ~Includes(sanitized.value, DotDot))
        => resanitized = sanitized

====
